---- MODULE Spec2Model ----
(***************************************************************************)
(* Self-inlining anonymous functions (SelfLambda.cpp).                     *)
(*                                                                         *)
(* An expression is a type: I<i>, Arg<T>, Sum<R1,R2>, Prod<R1,R2>.  The    *)
(* combinators of Exp<T> build such types from expression values, the      *)
(* Inline<E> specialisations resolve them, and integrate / integrate_fp    *)
(* are the two rectangle-rule loops that use the result.                   *)
(*                                                                         *)
(* A run of the model is one program: it composes expression values,       *)
(* hands one of them to a call (Inline<F>::at, Inline<F>::value or         *)
(* integrate), is built (template instantiation succeeds or fails), and    *)
(* then executes the call.                                                 *)
(***************************************************************************)
EXTENDS Integers, Sequences, FiniteSets, TLC

\* Bound: number of combinator calls (operator + / operator * ) in a program.
MaxOps == 2

\* Integer literals used as template arguments of I<i>.
Literals == {-1, 7, 2147483647}

(***************************************************************************)
(* Numbers.  A double is the dyadic rational n / 2^e, normalised (n odd or *)
(* e = 0).  Every input below is a small dyadic rational, so that every    *)
(* sum and product the program forms is exactly representable in an IEEE   *)
(* double and the exact arithmetic here is the arithmetic the program      *)
(* performs.  An int is [t |-> "int", n |-> i, e |-> 0].                   *)
(***************************************************************************)
RECURSIVE Pow2(_)
Pow2(k) == IF k = 0 THEN 1 ELSE 2 * Pow2(k - 1)

RECURSIVE Norm(_, _)
Norm(n, e) ==
  IF e > 0 /\ n % 2 = 0 THEN Norm(n \div 2, e - 1)
  ELSE [t |-> "double", n |-> n, e |-> e]

DblVal(n, e) == Norm(n, e)

IntVal(i) == [t |-> "int", n |-> i, e |-> 0]

NoVal == [t |-> "none", n |-> 0, e |-> 0]

Max(a, b) == IF a >= b THEN a ELSE b

\* double + double
DAdd(x, y) ==
  LET e == Max(x.e, y.e)
  IN  Norm(x.n * Pow2(e - x.e) + y.n * Pow2(e - y.e), e)

\* double - double
DSub(x, y) == DAdd(x, [y EXCEPT !.n = -y.n])

\* double * double
DMul(x, y) == Norm(x.n * y.n, x.e + y.e)

\* log2 of a power of two
RECURSIVE Log2(_)
Log2(k) == IF k <= 1 THEN 0 ELSE 1 + Log2(k \div 2)

\* double / int, for a divisor that is 0 or plus or minus a power of two;
\* x / 0 is not finite (t = "nonfinite"), as IEEE division gives inf or NaN.
DDivInt(x, n) ==
  IF n = 0 THEN [t |-> "nonfinite", n |-> 0, e |-> 0]
  ELSE IF n > 0 THEN Norm(x.n, x.e + Log2(n))
  ELSE Norm(-x.n, x.e + Log2(-n))

\* The implicit conversion of an argument to the parameter type int:
\* truncation toward zero.
ToInt(v) ==
  IF v.t = "int" THEN v
  ELSE IF v.n >= 0 THEN IntVal(v.n \div Pow2(v.e))
  ELSE IntVal(-((-v.n) \div Pow2(v.e)))

(***************************************************************************)
(* The type-based syntax tree nodes.                                       *)
(***************************************************************************)
I(i) == [k |-> "I", i |-> i]

Arg(T) == [k |-> "Arg", t |-> T]

Sum(R1, R2) == [k |-> "Sum", l |-> R1, r |-> R2]

Prod(R1, R2) == [k |-> "Prod", l |-> R1, r |-> R2]

\* A type that is no syntax tree node: the type of an int literal such as
\* the 1 of  x + 1.
RawInt == [k |-> "int"]

\* The types that derive from Exp<T> and so have operator + and operator *.
DerivesFromExp(T) == T.k \in {"I", "Arg", "Sum", "Prod"}

\* Exp<T>::operator * (M m): any M is accepted, the result type is Prod<T,M>.
ExpTimes(T, M) == Prod(T, M)

\* operator + with the template arguments of its result exchanged.
ExpPlus_Swapped(T, M) == Sum(M, T)

\* Exp<T>::operator + (M m): any M is accepted, the result type is Sum<T,M>.
ExpPlus(T, M) == Sum(T, M)

\* lambda returning a value of the type of its first parameter.
lambda_ArgType(A, T) == A

\* lambda(arg, body): the type of the value returned is the type of body.
lambda(A, T) == T

\* The value type of the placeholder declared in main: Arg<double> x.
ArgType == "double"

\* The types of the values a program has before it combines anything: the
\* placeholder x, constants of the types I<i>, and an int literal.
Leaves == {Arg(ArgType)} \cup {I(c) : c \in Literals} \cup {RawInt}

(***************************************************************************)
(* The inliner.                                                            *)
(***************************************************************************)
\* A primary template that has a member at of its own.
InlineMembers_Fallback(E) == IF E.k = "I" THEN {"value"} ELSE {"at"}

\* The static member functions of Inline<E>: the primary template has
\* none, Inline< I<i> > has value, the other three specialisations have at.
InlineMembers(E) ==
  IF E.k = "I" THEN {"value"}
  ELSE IF E.k \in {"Arg", "Sum", "Prod"} THEN {"at"}
  ELSE {}

\* Both operands resolved with Inline<E1>.
ChildType_LeftOnly(E, side) == E.l

\* The sub-expression whose resolver Inline< Sum<E1,E2> >::at and
\* Inline< Prod<E1,E2> >::at name for the left and for the right operand.
ChildType(E, side) == E[side]

\* Instantiating Inline<E>::at is well-formed: at is a member of Inline<E>,
\* and the body of at, which names Inline<E1>::at and Inline<E2>::at, is too.
RECURSIVE InstantiatesAt(_)
InstantiatesAt(E) ==
  /\ "at" \in InlineMembers(E)
  /\ E.k \in {"Sum", "Prod"} =>
       InstantiatesAt(ChildType(E, "l")) /\ InstantiatesAt(ChildType(E, "r"))

\* value returning its parameter.
InlineIValue_ReturnsArg(i, arg) == arg

\* Inline< I<i> >::value(int arg): return i.
InlineIValue(i, arg) == IntVal(i)

\* at declared with an int parameter, as value is: the argument is truncated.
InlineArgAt_IntParam(arg) == DblVal(ToInt(arg).n, 0)

\* Inline< Arg<X1> >::at(X1 arg): return arg.
InlineArgAt(arg) == arg

\* The sum resolved with - in place of +.
InlineSumAt_Minus(l, r) == DSub(l, r)

\* Inline< Sum<E1,E2> >::at: the + of the two results.
InlineSumAt(l, r) == DAdd(l, r)

\* The product resolved with the body of the sum.
InlineProdAt_Plus(l, r) == DAdd(l, r)

\* Inline< Prod<E1,E2> >::at: the * of the two results.
InlineProdAt(l, r) == DMul(l, r)

\* The argument Inline< Sum<E1,E2> >::at(arg) and Inline< Prod<E1,E2> >::at(arg)
\* pass to the resolver of a sub-expression.
ChildArg(arg, side) == arg

\* Inline<E>::at(arg) after inlining: the arithmetic the call expands to.
RECURSIVE InlineAt(_, _)
InlineAt(E, arg) ==
  IF E.k = "Arg" THEN InlineArgAt(arg)
  ELSE IF E.k = "Sum"
  THEN InlineSumAt(InlineAt(ChildType(E, "l"), ChildArg(arg, "l")),
                   InlineAt(ChildType(E, "r"), ChildArg(arg, "r")))
  ELSE IF E.k = "Prod"
  THEN InlineProdAt(InlineAt(ChildType(E, "l"), ChildArg(arg, "l")),
                    InlineAt(ChildType(E, "r"), ChildArg(arg, "r")))
  ELSE NoVal

\* double square (double x)
square(v) == DMul(v, v)

(***************************************************************************)
(* Inputs.                                                                 *)
(***************************************************************************)
\* Values of the argument type passed to Inline<F>::at and Inline<F>::value.
ArgValues == {DblVal(0, 0), DblVal(1, 1), DblVal(-3, 1), DblVal(7, 0)}

\* The interval ends a and b and the numbers of rectangles n of integrate.
LowerEnds == {DblVal(0, 0), DblVal(1, 1)}
UpperEnds == {DblVal(1, 0)}
SampleCounts == {-1, 0, 1, 2, 4}

VARIABLES
  phase,      \* where the program is
  vals,       \* the types of the expression values the program holds
  nops,       \* combinator calls so far
  last,       \* the last combinator or lambda call: operands and result
  odrDummy,   \* Dummy<T>::value, declared and never defined, has been used
  fn,         \* the type F of the expression value handed to the call
  call,       \* the call: "at", "value" or "integrate"
  stack,      \* the activations of Inline<..>::at, innermost last
  ret,        \* the value the call returned
  maxDepth,   \* the largest number of nested activations of at so far
  log,        \* the finished activations of at: [e, v, r]
  integ,      \* the locals of the running integrate or integrate_fp
  areas,      \* the results of integrate and of integrate_fp
  sampled     \* the points at which each loop evaluated the integrand

vars == <<phase, vals, nops, last, odrDummy, fn, call, stack, ret, maxDepth,
          log, integ, areas, sampled>>

NoCall == [op |-> "none"]

NoLocals == [f |-> "none"]

Init ==
  /\ phase = "compose"
  /\ vals = Leaves
  /\ nops = 0
  /\ last = NoCall
  /\ odrDummy = FALSE
  /\ fn = RawInt
  /\ call = "none"
  /\ stack = <<>>
  /\ ret = NoVal
  /\ maxDepth = 0
  /\ log = {}
  /\ integ = NoLocals
  /\ areas = [inline |-> NoVal, fp |-> NoVal]
  /\ sampled = [inline |-> <<>>, fp |-> <<>>]

runVars == <<fn, call, stack, ret, maxDepth, log, integ, areas, sampled>>

\* t + m  or  t * m  written in the program, t and m expression values.
\* With a left operand that does not derive from Exp there is no such
\* operator and the program does not build.
Combine(op, t, m) ==
  /\ phase = "compose"
  /\ nops < MaxOps
  /\ ~(t = RawInt /\ m = RawInt)
  /\ nops' = nops + 1
  /\ IF DerivesFromExp(t)
     THEN LET res == IF op = "+" THEN ExpPlus(t, m) ELSE ExpTimes(t, m)
          IN  /\ vals' = vals \cup {res}
              /\ last' = [op |-> op, t |-> t, m |-> m, res |-> res]
              /\ odrDummy' = TRUE
              /\ phase' = "compose"
     ELSE /\ phase' = "builderror"
          /\ UNCHANGED <<vals, last, odrDummy>>
  /\ UNCHANGED runVars

\* The expression is composed: expression values exist only to carry their
\* types, and of the composition only the type F of the value handed to the
\* call is left.
Composed ==
  /\ vals' = {}
  /\ nops' = 0

\* lambda(x, body): the value handed on has the type lambda returns.
Lambda(body) ==
  /\ phase = "compose"
  /\ fn' = lambda(Arg(ArgType), body)
  /\ last' = [op |-> "lambda", t |-> Arg(ArgType), m |-> body, res |-> fn']
  /\ odrDummy' = TRUE
  /\ phase' = "composed"
  /\ Composed
  /\ UNCHANGED <<call, stack, ret, maxDepth, log, integ, areas, sampled>>

\* An expression value handed on as it is, without lambda.
PassDirect(body) ==
  /\ phase = "compose"
  /\ fn' = body
  /\ last' = NoCall
  /\ phase' = "composed"
  /\ Composed
  /\ UNCHANGED <<odrDummy, call, stack, ret, maxDepth, log, integ, areas, sampled>>

\* The outcomes of building a program whose templates instantiate: it
\* links, or, when it uses the undefined Dummy<T>::value, it may not.
LinkOutcomes == IF odrDummy THEN {"linked", "linkerror"} ELSE {"linked"}

Frame(E, v) == [e |-> E, arg |-> v, l |-> NoVal, r |-> NoVal, pend |-> "-"]

\* Inline<F>::at(v) called directly.
CallAt(v) ==
  /\ phase = "composed"
  /\ call' = "at"
  /\ last' = NoCall
  /\ IF InstantiatesAt(fn)
     THEN \E o \in LinkOutcomes :
            IF o = "linked"
            THEN /\ phase' = "run"
                 /\ stack' = <<Frame(fn, v)>>
                 /\ maxDepth' = 1
            ELSE /\ phase' = "linkerror"
                 /\ UNCHANGED <<stack, maxDepth>>
     ELSE /\ phase' = "builderror"
          /\ UNCHANGED <<stack, maxDepth>>
  /\ UNCHANGED <<vals, nops, odrDummy, fn, ret, log, integ, areas, sampled>>

\* Inline<F>::value(v) called directly: v converts to the parameter type int.
CallValue(v) ==
  /\ phase = "composed"
  /\ call' = "value"
  /\ last' = NoCall
  /\ IF "value" \in InlineMembers(fn)
     THEN \E o \in LinkOutcomes :
            IF o = "linked"
            THEN /\ phase' = "done"
                 /\ ret' = InlineIValue(fn.i, ToInt(v))
                 /\ integ' = [f |-> "value", arg |-> ToInt(v)]
            ELSE /\ phase' = "linkerror"
                 /\ UNCHANGED <<ret, integ>>
     ELSE /\ phase' = "builderror"
          /\ UNCHANGED <<ret, integ>>
  /\ UNCHANGED <<vals, nops, odrDummy, fn, stack, maxDepth, log, areas, sampled>>

\* The locals of integrate and integrate_fp on entry.
Locals(f, a, b, n) ==
  [f |-> f, a |-> a, b |-> b, n |-> n,
   delta |-> DDivInt(DSub(b, a), n), area |-> DblVal(0, 0), x |-> a, i |-> 0]

\* The loop of integrate accumulating y in place of y * delta.
IntegrateBody_NoDelta(loc, y) ==
  [loc EXCEPT !.area = DAdd(loc.area, y),
              !.i = loc.i + 1,
              !.x = DAdd(loc.x, loc.delta)]

\* One turn of the loop of integrate, y the value of Inline<F>::at(x):
\* area += (y * delta), then ++i, x += delta.
IntegrateBody(loc, y) ==
  [loc EXCEPT !.area = DAdd(loc.area, DMul(y, loc.delta)),
              !.i = loc.i + 1,
              !.x = DAdd(loc.x, loc.delta)]

\* One turn of the loop of integrate_fp, y the value of f(x):
\* area += (y * delta), then ++i, x += delta.
IntegrateFpBody(loc, y) ==
  [loc EXCEPT !.area = DAdd(loc.area, DMul(y, loc.delta)),
              !.i = loc.i + 1,
              !.x = DAdd(loc.x, loc.delta)]

\* integrate(f, a, b, n), f the expression value of type F.
CallIntegrate(a, b, n) ==
  /\ phase = "composed"
  /\ call' = "integrate"
  /\ last' = NoCall
  /\ IF InstantiatesAt(fn)
     THEN \E o \in LinkOutcomes :
            IF o = "linked"
            THEN /\ phase' = "integrate"
                 /\ integ' = Locals("integrate", a, b, n)
            ELSE /\ phase' = "linkerror"
                 /\ UNCHANGED integ
     ELSE /\ phase' = "builderror"
          /\ UNCHANGED integ
  /\ UNCHANGED <<vals, nops, odrDummy, fn, stack, ret, maxDepth, log, areas, sampled>>

\* for (...; i < n; ...) { double y = Inline<F>::at(x) ; area += (y * delta) ; }
IntegrateTurn ==
  /\ phase = "integrate"
  /\ integ.i < integ.n
  /\ integ' = IntegrateBody(integ, InlineAt(fn, integ.x))
  /\ sampled' = [sampled EXCEPT !.inline = Append(@, integ.x)]
  /\ UNCHANGED <<phase, vals, nops, last, odrDummy, fn, call, stack, ret,
                 maxDepth, log, areas>>

\* return area ;
IntegrateReturn ==
  /\ phase = "integrate"
  /\ ~(integ.i < integ.n)
  /\ areas' = [areas EXCEPT !.inline = integ.area]
  /\ phase' = "returned"
  /\ UNCHANGED <<vals, nops, last, odrDummy, fn, call, stack, ret, maxDepth,
                 log, integ, sampled>>

\* integrate_fp(square, a, b, n) with the a, b and n integrate was given.
CallIntegrateFp ==
  /\ phase = "returned"
  /\ integ' = Locals("integrate_fp", integ.a, integ.b, integ.n)
  /\ phase' = "integrate_fp"
  /\ UNCHANGED <<vals, nops, last, odrDummy, fn, call, stack, ret, maxDepth,
                 log, areas, sampled>>

\* for (...; i < n; ...) { double y = f(x) ; area += (y * delta) ; }
IntegrateFpTurn ==
  /\ phase = "integrate_fp"
  /\ integ.i < integ.n
  /\ integ' = IntegrateFpBody(integ, square(integ.x))
  /\ sampled' = [sampled EXCEPT !.fp = Append(@, integ.x)]
  /\ UNCHANGED <<phase, vals, nops, last, odrDummy, fn, call, stack, ret,
                 maxDepth, log, areas>>

\* return area ;
IntegrateFpReturn ==
  /\ phase = "integrate_fp"
  /\ ~(integ.i < integ.n)
  /\ areas' = [areas EXCEPT !.fp = integ.area]
  /\ phase' = "done"
  /\ UNCHANGED <<vals, nops, last, odrDummy, fn, call, stack, ret, maxDepth,
                 log, integ, sampled>>

Top == stack[Len(stack)]

Pop == SubSeq(stack, 1, Len(stack) - 1)

\* The activation on top calls the resolver of one of its sub-expressions.
\* The order in which the two operands of + and * are evaluated is
\* unspecified.
EnterChild(side) ==
  /\ phase = "run"
  /\ Top.e.k \in {"Sum", "Prod"}
  /\ Top.pend = "-"
  /\ Top[side] = NoVal
  /\ stack' = Append([stack EXCEPT ![Len(stack)].pend = side],
                     Frame(ChildType(Top.e, side), ChildArg(Top.arg, side)))
  /\ maxDepth' = Max(maxDepth, Len(stack) + 1)
  /\ UNCHANGED <<phase, vals, nops, last, odrDummy, fn, call, ret, log, integ,
                 areas, sampled>>

\* The activation on top returns v: to the caller's pending operand, or,
\* from the outermost activation, to the caller of at.
Return(v) ==
  /\ log' = log \cup {[e |-> Top.e, v |-> Top.arg, r |-> v]}
  /\ IF Len(stack) = 1
     THEN /\ stack' = <<>>
          /\ ret' = v
          /\ phase' = "done"
     ELSE LET caller == stack[Len(stack) - 1]
          IN  /\ stack' = [Pop EXCEPT ![Len(stack) - 1] =
                             [caller EXCEPT ![caller.pend] = v, !.pend = "-"]]
              /\ UNCHANGED <<ret, phase>>
  /\ UNCHANGED <<vals, nops, last, odrDummy, fn, call, maxDepth, integ, areas,
                 sampled>>

ReturnArg ==
  /\ phase = "run"
  /\ Top.e.k = "Arg"
  /\ Return(InlineArgAt(Top.arg))

ReturnSum ==
  /\ phase = "run"
  /\ Top.e.k = "Sum"
  /\ Top.l # NoVal /\ Top.r # NoVal
  /\ Return(InlineSumAt(Top.l, Top.r))

ReturnProd ==
  /\ phase = "run"
  /\ Top.e.k = "Prod"
  /\ Top.l # NoVal /\ Top.r # NoVal
  /\ Return(InlineProdAt(Top.l, Top.r))

Next ==
  \/ \E op \in {"+", "*"}, t \in vals, m \in vals : Combine(op, t, m)
  \/ \E body \in vals : Lambda(body)
  \/ \E body \in vals : PassDirect(body)
  \/ \E v \in ArgValues : CallAt(v)
  \/ \E v \in ArgValues : CallValue(v)
  \/ \E a \in LowerEnds, b \in UpperEnds, n \in SampleCounts : CallIntegrate(a, b, n)
  \/ IntegrateTurn
  \/ IntegrateReturn
  \/ CallIntegrateFp
  \/ IntegrateFpTurn
  \/ IntegrateFpReturn
  \/ \E side \in {"l", "r"} : EnterChild(side)
  \/ ReturnArg
  \/ ReturnSum
  \/ ReturnProd

Spec == Init /\ [][Next]_vars
\* The steps of a resolution under way.
ResolutionStep ==
  \/ \E side \in {"l", "r"} : EnterChild(side)
  \/ ReturnArg
  \/ ReturnSum
  \/ ReturnProd

\* The built program is one thread: a resolution under way keeps running
\* until it returns.
FairSpec == Spec /\ WF_vars(ResolutionStep)

(***************************************************************************)
(* Properties.                                                             *)
(***************************************************************************)
\* Built only from Constant, Argument, Sum and Product nodes.
RECURSIVE InLattice(_)
InLattice(E) ==
  \/ E.k \in {"I", "Arg"}
  \/ E.k \in {"Sum", "Prod"} /\ InLattice(E.l) /\ InLattice(E.r)

\* The number of levels of a tree: 1 for a leaf.
RECURSIVE Depth(_)
Depth(E) ==
  IF E.k \in {"Sum", "Prod"} THEN 1 + Max(Depth(E.l), Depth(E.r)) ELSE 1

\* The program is executing or has executed the call.
Running == phase \in {"run", "integrate", "returned", "integrate_fp", "done"}

X == Arg(ArgType)

\* C1: every tree built only from Constant, Argument, Sum and Product
\* presents at: a call of Inline<F>::at on it, direct or from integrate, is
\* accepted by the build.
C1_EveryLatticeTreePresentsAt ==
  (call \in {"at", "integrate"} /\ InLattice(fn)) => phase # "builderror"

\* C2: the resolver of Constant(i), called with any v, returns exactly i.
C2_ConstantYieldsI ==
  (call = "value" /\ phase = "done") => ret = [t |-> "int", n |-> fn.i, e |-> 0]

C2_Witness ==
  /\ call = "value" /\ phase = "done"
  /\ fn = I(7)
  /\ integ.arg.n = -1
  /\ ret.n = 7

\* C3: every finished activation of the resolver of Argument returned the
\* value it was called with, of the Argument's declared value type.
C3_ArgumentYieldsV ==
  \A en \in log : en.e.k = "Arg" => (en.r = en.v /\ en.r.t = en.e.t)

C3_Witness ==
  /\ phase = "done" /\ call = "at" /\ fn = X
  /\ ret = DblVal(-3, 1)
  /\ [e |-> X, v |-> DblVal(-3, 1), r |-> DblVal(-3, 1)] \in log

\* C4: every finished activation of the resolver of Sum(E1, E2) at v returned
\* the sum, and of Product(E1, E2) the product, of what the resolvers of E1
\* and of E2 returned at the same v.
C4_SumAndProduct ==
  \A en \in log :
    en.e.k \in {"Sum", "Prod"} =>
      \E e1 \in log, e2 \in log :
        /\ e1.e = en.e.l /\ e1.v = en.v
        /\ e2.e = en.e.r /\ e2.v = en.v
        /\ en.e.k = "Sum" => en.r = DAdd(e1.r, e2.r)
        /\ en.e.k = "Prod" => en.r = DMul(e1.r, e2.r)

C4_Witness ==
  /\ phase = "done" /\ call = "at"
  /\ fn = Sum(Prod(X, X), X)
  /\ [e |-> Prod(X, X), v |-> DblVal(-3, 1), r |-> DblVal(9, 2)] \in log
  /\ ret = DblVal(3, 2)

\* C5: a resolution that has started ends with a result, and the largest
\* number of nested activations it reached is the number of levels of the tree.
C5_TerminatesAtTreeDepth ==
  /\ [](phase = "run" => <>(phase = "done"))
  /\ []((phase = "done" /\ call = "at") => maxDepth = Depth(fn))

C5_Witness ==
  /\ phase = "done" /\ call = "at"
  /\ fn = Sum(X, Prod(X, X))
  /\ maxDepth = 3

\* C6: a tree with a node that is not Constant, Argument, Sum or Product
\* handed to a call ends in a build error and is never executed, and an
\* executing resolution never fails: it always has a next step, and in the
\* loop of integrate it yields a value at the next sample point.
C6_OnlyBuildTimeFailure ==
  /\ (call # "none" /\ ~InLattice(fn)) => phase = "builderror"
  /\ Running => InLattice(fn)
  /\ phase = "run" => ENABLED ResolutionStep
  /\ (phase = "integrate" /\ integ.i < integ.n) => InlineAt(fn, integ.x).t = "double"

C6_Witness ==
  /\ call = "at" /\ phase = "builderror"
  /\ fn = Sum(X, RawInt)

\* C7, as stated: no Sum or Product value exists whose right operand is not
\* built from Constant, Argument, Sum and Product.
C7_RejectedAtCombination ==
  \A T \in vals : T.k \in {"Sum", "Prod"} => InLattice(T.r)

\* C7, amended: a combination with such a right operand is accepted and
\* yields Sum<T,M> or Prod<T,M>; the expression is rejected by the build when
\* it is handed to a call.
C7_RejectedAtResolution ==
  /\ (last.op \in {"+", "*"} /\ ~InLattice(last.m)) =>
       /\ last.res \in vals
       /\ last.res = [k |-> IF last.op = "+" THEN "Sum" ELSE "Prod",
                      l |-> last.t, r |-> last.m]
  /\ (call # "none" /\ fn.k \in {"Sum", "Prod"} /\ ~InLattice(fn.r)) =>
       phase = "builderror"

C7_Witness ==
  /\ call = "integrate" /\ phase = "builderror"
  /\ fn = Prod(X, Sum(X, RawInt))

\* C8: for the expression x * x, integrate returns what integrate_fp with
\* square returns for the same a, b and n, and both loops evaluate the
\* integrand at the same points in the same order, n of them.
C8_SameAsFunctionPointer ==
  (phase = "done" /\ call = "integrate" /\ fn = Prod(X, X)) =>
    /\ areas.inline = areas.fp
    /\ sampled.inline = sampled.fp
    /\ Len(sampled.inline) = Max(integ.n, 0)

C8_Witness ==
  /\ phase = "done" /\ call = "integrate" /\ fn = Prod(X, X)
  /\ integ.a = DblVal(0, 0) /\ integ.b = DblVal(1, 0) /\ integ.n = 4
  /\ areas.inline = DblVal(7, 5)
  /\ areas.fp = DblVal(7, 5)

\* C9: the value + returns has type Sum<T,M>, the value * returns has type
\* Prod<T,M>, T the type of the left and M of the right operand, whatever
\* they are; lambda returns a value of the type of its body; the operands
\* are still there, as they were.
C9_CombinatorsAreTypeLevel ==
  /\ last.op = "+" =>
       last.res = [k |-> "Sum", l |-> last.t, r |-> last.m]
  /\ last.op = "*" =>
       last.res = [k |-> "Prod", l |-> last.t, r |-> last.m]
  /\ last.op = "lambda" => (last.res = last.m /\ fn = last.m)
  /\ last.op \in {"+", "*"} => {last.t, last.m, last.res} \subseteq vals

C9_Witness ==
  /\ last.op = "lambda"
  /\ fn = Prod(Sum(X, I(7)), RawInt)
  /\ phase = "composed"

\* C10: Sum(Sum(A,B),C) and Sum(A,Sum(B,C)) resolve to the same value at the
\* same v.
C10_SumAssociates ==
  (phase = "done" /\ call = "at" /\ fn.k = "Sum") =>
    \A en \in log :
      en.e = fn =>
        /\ fn.l.k = "Sum" =>
             ret = InlineAt(Sum(fn.l.l, Sum(fn.l.r, fn.r)), en.v)
        /\ fn.r.k = "Sum" =>
             ret = InlineAt(Sum(Sum(fn.l, fn.r.l), fn.r.r), en.v)

C10_Witness ==
  /\ phase = "done" /\ call = "at"
  /\ fn = Sum(Sum(X, X), X)
  /\ ret = DblVal(-9, 1)
====
